---- MODULE Spec2Model ----
(***************************************************************************)
(* Model of src/director.cpp: the RubyMotion binding of cocos2d::Director. *)
(* The binding keeps a vector of retained scene VALUEs                     *)
(* (director_using_scene) next to the engine's own scene stack, and a      *)
(* cached wrapper object (mc_director_instance).                           *)
(***************************************************************************)
EXTENDS Integers, Sequences, FiniteSets

\* ------------------------------------------------------------------ bounds
NScenes == 2        \* number of distinct scene objects the script can pass
MaxLen == 4         \* cap on the length of director_using_scene
MaxStack == 2       \* cap on the depth of the engine's scene stack
MaxRetain == 1      \* cap on |retains - releases| of one scene
MaxConstruct == 2   \* cap on the number of wrapper objects constructed

\* --------------------------------------------------------------- constants
Qnil == 4           \* the VALUE of nil
InitialSlots == 3   \* std::vector<VALUE> director_using_scene(3)

Scenes == 1..NScenes
Slot == 0..NScenes  \* what a slot of the vector can hold: 0 or a scene

VARIABLES
    director_using_scene,  \* the vector of retained scene references
    mc_director_instance,  \* the cached wrapper, Qnil before the first call
    scene_stack,           \* the engine's scene stack, bottom to top
    engine_followed,       \* whether this behaviour follows the engine's stack
    rc,                    \* per scene: retains minus releases by this layer
    constructed,           \* number of rb_cocos2d_object_new calls for Director
    instance_retains,      \* number of rb_retain calls on a wrapper object
    op,                    \* the last handler called
    arg,                   \* its scene argument (0 when it has none)
    events,                \* what the last handler did, in program order
    ret,                   \* what the last handler returned
    oob,                   \* some handler accessed the vector out of bounds
    crashed                \* an out-of-bounds access aborted the process

vars == <<director_using_scene, mc_director_instance, scene_stack,
          engine_followed, rc,
          constructed, instance_retains, op, arg, events, ret, oob, crashed>>

\* ----------------------------------------------------------------- helpers
Retain(v) == [kind |-> "retain", val |-> v]
Release(v) == [kind |-> "release", val |-> v]
Forward(m, v) == [kind |-> m, val |-> v]

\* one rb_retain / rb_release call of the binding on v, counted in c; the
\* placeholder 0 is no object
rb_retain(c, v) == IF v \in Scenes THEN [c EXCEPT ![v] = @ + 1] ELSE c

rb_release(c, v) == IF v \in Scenes THEN [c EXCEPT ![v] = @ - 1] ELSE c

\* the counts after the retains and releases of ev, in the order of ev
RECURSIVE ApplyEvents(_, _)
ApplyEvents(c, ev) ==
    IF ev = <<>> THEN c
    ELSE ApplyEvents(
            IF Head(ev).kind = "retain" THEN rb_retain(c, Head(ev).val)
            ELSE IF Head(ev).kind = "release" THEN rb_release(c, Head(ev).val)
            ELSE c,
            Tail(ev))

SeqsUpTo(S, n) == UNION {[1..k -> S] : k \in 0..n}

\* what a vector can look like after an access outside its bounds
GarbageLists == SeqsUpTo(Slot, 1)

\* -------------------------------------------------- the engine (cocos2d)
\* The engine is not part of the binding's source; its scene stack is
\* modelled as the specification describes it.
pushScene(st, s) == Append(st, s)

runWithScene(st, s) == pushScene(st, s)

\* with no running scene the engine runs s, otherwise it swaps its top scene
replaceScene(st, s) ==
    IF st = <<>> THEN runWithScene(st, s)
    ELSE [st EXCEPT ![Len(st)] = s]

popScene(st) == IF st = <<>> THEN st ELSE SubSeq(st, 1, Len(st) - 1)

endDirector(st) == <<>>

\* the engine's stack after a forwarded call, when the behaviour follows it
Engine(st) == IF engine_followed THEN st ELSE scene_stack

\* ------------------------------------------------------------------- Init
Init ==
    /\ director_using_scene = [i \in 1..InitialSlots |-> 0]
    /\ mc_director_instance = Qnil
    /\ scene_stack = <<>>
    /\ engine_followed = FALSE
    /\ rc = [s \in Scenes |-> 0]
    /\ constructed = 0
    /\ instance_retains = 0
    /\ op = "init"
    /\ arg = 0
    /\ events = <<>>
    /\ ret = Qnil
    /\ oob = FALSE
    /\ crashed = FALSE

\* the receiver of an instance method: the only Director is the shared one
rcv == mc_director_instance

\* DIRECTOR(rcv) needs a receiver, which only Director.shared hands out
HasReceiver == rcv # Qnil

\* the counters stay inside the model's bounds
Bounded ==
    /\ Len(director_using_scene') <= MaxLen
    /\ Len(scene_stack') <= MaxStack
    /\ \A s \in Scenes : rc'[s] \in (0 - MaxRetain)..MaxRetain

\* an access outside the vector aborts the process (hardened build, fault)
\* ev: what the handler did before the faulting access
Abort(name, a, ev) ==
    /\ crashed' = TRUE
    /\ oob' = TRUE
    /\ op' = name
    /\ arg' = a
    /\ events' = ev
    /\ rc' = ApplyEvents(rc, ev)
    /\ \A s \in Scenes : rc'[s] <= MaxRetain
    /\ UNCHANGED <<director_using_scene, mc_director_instance, scene_stack,
                   engine_followed, constructed, instance_retains, ret>>

\* ------------------------------------------------------ Director.shared
\* the VALUE of the n-th wrapper object made by rb_cocos2d_object_new
NewObject(n) == 8 * n

\* the handle director_instance leaves in mc_director_instance
shared_handle_always_new(inst, n) == NewObject(n + 1)

shared_handle(inst, n) == IF inst = Qnil THEN NewObject(n + 1) ELSE inst

director_instance ==
    /\ ~crashed
    /\ LET next == shared_handle(mc_director_instance, constructed)
           made == IF next = mc_director_instance THEN 0 ELSE 1
       IN /\ constructed + made <= MaxConstruct
          /\ mc_director_instance' = next
          /\ constructed' = constructed + made
          /\ instance_retains' = instance_retains + made
          /\ ret' = next
    /\ op' = "shared"
    /\ arg' = 0
    /\ events' = <<>>
    /\ UNCHANGED <<director_using_scene, scene_stack, engine_followed, rc, oob,
                   crashed>>

\* ------------------------------------------------------------ Director#run
run_slots(list, obj) == [list EXCEPT ![1] = obj]

run_events(list, obj) == <<Retain(obj), Forward("runWithScene", obj)>>

director_run(obj) ==
    /\ ~crashed
    /\ HasReceiver
    /\ \/ /\ Len(director_using_scene) >= 1
          /\ director_using_scene' = run_slots(director_using_scene, obj)
          /\ events' = run_events(director_using_scene, obj)
          /\ scene_stack' = Engine(runWithScene(scene_stack, obj))
          /\ rc' = ApplyEvents(rc, events')
          /\ Bounded
          /\ op' = "run" /\ arg' = obj /\ ret' = rcv
          /\ UNCHANGED <<engine_followed, mc_director_instance, constructed, instance_retains,
                         oob, crashed>>
       \/ \* slot 0 of an empty vector is written: the write lands anywhere
          /\ Len(director_using_scene) = 0
          /\ director_using_scene' \in GarbageLists
          /\ events' = run_events(director_using_scene, obj)
          /\ scene_stack' = Engine(runWithScene(scene_stack, obj))
          /\ rc' = ApplyEvents(rc, events')
          /\ Bounded
          /\ oob' = TRUE
          /\ op' = "run" /\ arg' = obj /\ ret' = rcv
          /\ UNCHANGED <<engine_followed, mc_director_instance, constructed, instance_retains,
                         crashed>>
       \/ /\ Len(director_using_scene) = 0
          \* rb_retain(obj) and operator[] are not ordered before C++17
          /\ \E ev \in {<<>>, <<Retain(obj)>>} : Abort("run", obj, ev)

\* -------------------------------------------------------- Director#replace
replace_slots(list, obj) == [list EXCEPT ![1] = obj]

replace_events(old, obj) ==
    <<Release(old), Retain(obj), Forward("replaceScene", obj)>>

director_replace(obj) ==
    /\ ~crashed
    /\ HasReceiver
    /\ \/ /\ Len(director_using_scene) >= 1
          /\ director_using_scene' = replace_slots(director_using_scene, obj)
          /\ events' = replace_events(director_using_scene[1], obj)
          /\ scene_stack' = Engine(replaceScene(scene_stack, obj))
          /\ rc' = ApplyEvents(rc, events')
          /\ Bounded
          /\ op' = "replace" /\ arg' = obj /\ ret' = rcv
          /\ UNCHANGED <<engine_followed, mc_director_instance, constructed, instance_retains,
                         oob, crashed>>
       \/ \* slot 0 of an empty vector is read, released and written
          /\ Len(director_using_scene) = 0
          /\ \E old \in Slot :
                events' = replace_events(old, obj)
          /\ director_using_scene' \in GarbageLists
          /\ scene_stack' = Engine(replaceScene(scene_stack, obj))
          /\ rc' = ApplyEvents(rc, events')
          /\ Bounded
          /\ oob' = TRUE
          /\ op' = "replace" /\ arg' = obj /\ ret' = rcv
          /\ UNCHANGED <<engine_followed, mc_director_instance, constructed, instance_retains,
                         crashed>>
       \/ /\ Len(director_using_scene) = 0
          /\ Abort("replace", obj, <<>>)

\* ----------------------------------------------------------- Director#push
push_slots_front(list, obj) == <<obj>> \o list

push_slots(list, obj) == Append(list, obj)

push_events(list, obj) == <<Retain(obj), Forward("pushScene", obj)>>

director_push(obj) ==
    /\ ~crashed
    /\ HasReceiver
    /\ director_using_scene' = push_slots(director_using_scene, obj)
    /\ events' = push_events(director_using_scene, obj)
    /\ scene_stack' = Engine(pushScene(scene_stack, obj))
    /\ rc' = ApplyEvents(rc, events')
    /\ Bounded
    /\ op' = "push" /\ arg' = obj /\ ret' = rcv
    /\ UNCHANGED <<engine_followed, mc_director_instance, constructed, instance_retains,
                   oob, crashed>>

\* ------------------------------------------------------------ Director#pop
pop_slots_keep(list) == list

pop_slots(list) == SubSeq(list, 1, Len(list) - 1)

pop_events(last_scene) == <<Release(last_scene), Forward("popScene", 0)>>

director_pop ==
    /\ ~crashed
    /\ HasReceiver
    /\ \/ /\ Len(director_using_scene) >= 1
          /\ director_using_scene' = pop_slots(director_using_scene)
          /\ events' =
                pop_events(director_using_scene[Len(director_using_scene)])
          /\ scene_stack' = Engine(popScene(scene_stack))
          /\ rc' = ApplyEvents(rc, events')
          /\ Bounded
          /\ op' = "pop" /\ arg' = 0 /\ ret' = rcv
          /\ UNCHANGED <<engine_followed, mc_director_instance, constructed, instance_retains,
                         oob, crashed>>
       \/ \* back() and pop_back() of an empty vector
          /\ Len(director_using_scene) = 0
          /\ \E last_scene \in Slot :
                events' = pop_events(last_scene)
          /\ director_using_scene' \in GarbageLists
          /\ scene_stack' = Engine(popScene(scene_stack))
          /\ rc' = ApplyEvents(rc, events')
          /\ Bounded
          /\ oob' = TRUE
          /\ op' = "pop" /\ arg' = 0 /\ ret' = rcv
          /\ UNCHANGED <<engine_followed, mc_director_instance, constructed, instance_retains,
                         crashed>>
       \/ /\ Len(director_using_scene) = 0
          /\ Abort("pop", 0, <<>>)

\* ------------------------------------------------------------ Director#end
end_slots_keep(list) == list

end_slots(list) == [i \in DOMAIN list |-> 0]

RECURSIVE end_releases(_)
end_releases(list) ==
    IF list = <<>> THEN <<>>
    ELSE IF Head(list) # 0
         THEN <<Release(Head(list))>> \o end_releases(Tail(list))
         ELSE end_releases(Tail(list))

end_events(list) == end_releases(list) \o <<Forward("end", 0)>>

director_end ==
    /\ ~crashed
    /\ HasReceiver
    /\ director_using_scene' = end_slots(director_using_scene)
    /\ events' = end_events(director_using_scene)
    /\ scene_stack' = Engine(endDirector(scene_stack))
    /\ rc' = ApplyEvents(rc, events')
    /\ Bounded
    /\ op' = "end" /\ arg' = 0 /\ ret' = rcv
    /\ UNCHANGED <<engine_followed, mc_director_instance, constructed, instance_retains,
                   oob, crashed>>

\* ------------------------------------------------------------------- Next
Next ==
    \/ director_instance
    \/ \E obj \in Scenes : director_run(obj)
    \/ \E obj \in Scenes : director_replace(obj)
    \/ \E obj \in Scenes : director_push(obj)
    \/ director_pop
    \/ director_end

\* the binding alone: the forwarded engine calls are recorded in events
Spec == Init /\ [][Next]_vars

\* the binding together with the engine's scene stack
InitEngine ==
    /\ director_using_scene = [i \in 1..InitialSlots |-> 0]
    /\ mc_director_instance = Qnil
    /\ scene_stack = <<>>
    /\ engine_followed = TRUE
    /\ rc = [s \in Scenes |-> 0]
    /\ constructed = 0
    /\ instance_retains = 0
    /\ op = "init"
    /\ arg = 0
    /\ events = <<>>
    /\ ret = Qnil
    /\ oob = FALSE
    /\ crashed = FALSE

SpecEngine == InitEngine /\ [][Next]_vars

\* ================================================================ claims
\* positions in the events of one call
ForwardAt(ev) == CHOOSE i \in DOMAIN ev : ev[i].kind \notin {"retain", "release"}

ReleasesOf(ev, v) == {i \in DOMAIN ev : ev[i] = Release(v)}

RetainsOf(ev, v) == {i \in DOMAIN ev : ev[i] = Retain(v)}

\* number of events of kind k on value s in ev
CountKind(ev, k, s) ==
    Cardinality({i \in DOMAIN ev : ev[i].kind = k /\ ev[i].val = s})

\* number of slots of list that hold s
CountIn(list, s) == Cardinality({i \in DOMAIN list : list[i] = s})

\* C1: in every reachable state the retained-reference list equals the
\* engine's scene stack: same length, same scenes, same bottom-to-top order.
C1_Mirror == director_using_scene = scene_stack

\* C2: in every reachable state each scene on the engine's scene stack is
\* held by at least one retain of this layer that has not been released.
C2_NoPrematureCollection ==
    \A i \in DOMAIN scene_stack : rc[scene_stack[i]] >= 1

C4_RootSlotSwap ==
    [][(op' \in {"run", "replace"} /\ ~crashed'
            /\ Len(director_using_scene) >= 1) =>
        LET prev == director_using_scene[1]
            fw == ForwardAt(events')
        IN /\ director_using_scene'[1] = arg'
           /\ \E i \in RetainsOf(events', arg') : i < fw
           /\ prev # 0 =>
                /\ Cardinality(ReleasesOf(events', prev)) = 1
                /\ \A i \in ReleasesOf(events', prev) : i < fw]_vars

\* C5: a pop call made while the engine's stack is non-empty (and the list
\* is non-empty) removes exactly one entry of the list, releases it exactly
\* once, and that entry is the scene on top of the engine's stack.
C5_PopReleasesTop ==
    [][(op' = "pop" /\ ~crashed' /\ scene_stack # <<>>
            /\ Len(director_using_scene) >= 1) =>
        LET last_scene == director_using_scene[Len(director_using_scene)]
        IN /\ Len(director_using_scene') = Len(director_using_scene) - 1
           /\ Cardinality(ReleasesOf(events', last_scene)) = 1
           /\ last_scene = scene_stack[Len(scene_stack)]]_vars

\* C6: push(s) appends one retained reference to s at the end of the list
\* before forwarding pushScene: the length grows by 1, every earlier entry
\* keeps its position and value, and nothing is released.
C6_PushAppends ==
    [][(op' = "push") =>
        /\ Len(director_using_scene') = Len(director_using_scene) + 1
        /\ \A i \in DOMAIN director_using_scene :
              director_using_scene'[i] = director_using_scene[i]
        /\ director_using_scene'[Len(director_using_scene')] = arg'
        /\ \A i \in DOMAIN events' : events'[i].kind # "release"
        /\ Cardinality(RetainsOf(events', arg')) = 1
        /\ \A i \in RetainsOf(events', arg') : i < ForwardAt(events')
        /\ events'[ForwardAt(events')] = Forward("pushScene", arg')
        /\ rc' = rb_retain(rc, arg')]_vars

C6_Witness ==
    /\ op = "push"
    /\ Len(director_using_scene) > InitialSlots
    /\ director_using_scene[1] \in Scenes
    /\ director_using_scene[Len(director_using_scene)] = arg

\* C7: in every reachable state, for each scene, retains minus releases
\* equals the number of entries of the list that hold that scene.
C7_RetainReleasePairing ==
    \A s \in Scenes : rc[s] = CountIn(director_using_scene, s)

\* C8: the wrapper is constructed and retained exactly once, on the first
\* Director.shared call; every call returns that same handle; and no
\* operation resets or changes the cached handle once it is set.
C8_SharedSingleton ==
    /\ [](/\ constructed <= 1
          /\ instance_retains = constructed
          /\ (mc_director_instance = Qnil) = (constructed = 0)
          /\ (op = "shared") =>
                /\ constructed = 1
                /\ ret = NewObject(1)
                /\ mc_director_instance = ret)
    /\ [][mc_director_instance # Qnil =>
            mc_director_instance' = mc_director_instance]_vars

C8_Witness ==
    /\ op = "shared"
    /\ ret = NewObject(1)
    /\ \E s \in Scenes : rc[s] >= 1

\* C9: no handler reads or writes the list outside its bounds: the list is
\* non-empty whenever pop takes its last entry, and slot 0 exists whenever
\* run or replace uses it.
C9_SlotAccessInBounds == ~oob

\* C10: as long as every list access has been in bounds, each release is
\* on the placeholder 0 or on a scene whose retains exceed its releases at
\* that moment, so no count of retains minus releases goes below zero.
C10_NoOverRelease ==
    [][~oob' =>
        /\ \A i \in DOMAIN events' :
              (events'[i].kind = "release" /\ events'[i].val \in Scenes) =>
                 ApplyEvents(rc, SubSeq(events', 1, i - 1))[events'[i].val] >= 1
        /\ \A s \in Scenes : rc'[s] >= 0]_vars

C10_Witness ==
    /\ ~oob
    /\ op = "pop"
    /\ \E s \in Scenes : events[1] = Release(s)

====
